---- MODULE Spec2Model ----
(***************************************************************************)
(* BundleBuilder of src/src/Bundler.ts (lines 208-587) as a state machine. *)
(*                                                                         *)
(* Every string of the program is a sequence of one-character strings, so  *)
(* that lengths, offsets and concatenations are the program's own.         *)
(* Source positions are 0-based as in the TypeScript AST: a span           *)
(* (pos, end) covers the characters text[pos+1 .. end] of the sequence.    *)
(***************************************************************************)
EXTENDS Integers, Sequences, FiniteSets, TLC

\* Longest list of entry files (bundle.fileNames) a build is given.
MaxEntries == 2

----------------------------------------------------------------------------
(* Generic helpers                                                         *)

Range(s) == { s[i] : i \in DOMAIN s }

\* All sequences over S of length 1..n.
SeqsUpTo(S, n) == UNION { [1..k -> S] : k \in 1..n }

RECURSIVE Flatten(_)
Flatten(ss) == IF ss = <<>> THEN <<>> ELSE Head(ss) \o Flatten(Tail(ss))

\* Number of offsets at which p occurs in t.
Occurrences(p, t) ==
    Cardinality({ i \in 1..(Len(t) - Len(p) + 1) : SubSeq(t, i, i + Len(p) - 1) = p })

\* First offset (1-based) at which p occurs in t; 0 when it does not occur.
FirstOccurrence(p, t) ==
    LET at == { i \in 1..(Len(t) - Len(p) + 1) : SubSeq(t, i, i + Len(p) - 1) = p }
    IN  IF at = {} THEN 0 ELSE CHOOSE i \in at : \A j \in at : i <= j

EndsWith(t, p) ==
    /\ Len(p) <= Len(t)
    /\ SubSeq(t, Len(t) - Len(p) + 1, Len(t)) = p

\* A JavaScript object used as a map: own keys and their values.
EmptyMap == [k \in {} |-> {}]
hasProperty(map, key) == key \in DOMAIN map
SetProperty(map, key, value) ==
    [k \in DOMAIN map \cup {key} |-> IF k = key THEN value ELSE map[k]]

----------------------------------------------------------------------------
(* The front end: symbols, nodes and source files handed to the builder   *)

\* getSymbolAtLocation found nothing (undefined).
NoSymbol == [decl |-> "none", declarationFile |-> FALSE, ambient |-> FALSE, file |-> <<>>]

\* A module symbol whose first declaration is a source file.
FileSymbol(fileName, isDeclarationFile) ==
    [decl |-> "SourceFile", declarationFile |-> isDeclarationFile,
     ambient |-> FALSE, file |-> fileName]

\* A module symbol declared by `declare module 'f' { }` in a declaration file.
AmbientSymbol ==
    [decl |-> "ModuleDeclaration", declarationFile |-> FALSE, ambient |-> TRUE,
     file |-> <<"f",".","d">>]

\* A top-level node of a source file, before it is placed at an offset.
\*   full     the node's characters, leading trivia included (pos .. end)
\*   lead     number of leading trivia characters (getText() skips them)
\*   literal  getExternalModuleName(node) exists and is a StringLiteral
\*   spec     moduleSpecifier.text; specText: moduleSpecifier.getText()
\*   symbol   what the type checker resolves the specifier to
\*   clause   the import declaration has an importClause
\*   defaultName / namespaceName: zero or one name; elements: NamedImports
\*   name     ImportEqualsDeclaration.name.text or ModuleDeclaration name
\*   export   node.flags & NodeFlags.Export; modEnd: end of modifiers[0]
BaseNode(kind, full) ==
    [kind |-> kind, full |-> full, lead |-> 0, pos |-> 0, end |-> 0,
     literal |-> FALSE, spec |-> <<>>, specText |-> <<>>, refText |-> <<>>,
     symbol |-> NoSymbol, clause |-> FALSE,
     defaultName |-> <<>>, namespaceName |-> <<>>, named |-> FALSE, elements |-> <<>>,
     name |-> <<>>, export |-> FALSE, modPos |-> 0, modEnd |-> 0]

ImportOf(full, spec, symbol) ==
    [BaseNode("ImportDeclaration", full) EXCEPT
        !.literal = TRUE, !.spec = spec, !.specText = <<"'">> \o spec \o <<"'">>,
        !.symbol = symbol]

Element(propertyName, name) == [propertyName |-> propertyName, name |-> name]

FileA == <<"a">>
FileB == <<"b">>
FileC == <<"s","/","c">>
FileD == <<"d">>
ModuleF == <<"f">>

\* import 'a';  import 'b';  import 'c';  resolve to code source files.
ImportA == ImportOf(<<"i","m","p","o","r","t"," ","'","a","'",";">>, <<"a">>, FileSymbol(FileA, FALSE))
ImportB == ImportOf(<<"i","m","p","o","r","t"," ","'","b","'",";">>, <<"b">>, FileSymbol(FileB, FALSE))
ImportC == ImportOf(<<"i","m","p","o","r","t"," ","'","c","'",";">>, <<"c">>, FileSymbol(FileC, FALSE))
\* import 'd';  resolves to a declaration file (d.ts).
ImportD == ImportOf(<<"i","m","p","o","r","t"," ","'","d","'",";">>, <<"d">>, FileSymbol(FileD, TRUE))

\* import {r,t} from 'f';
NamedRT ==
    [ImportOf(<<"i","m","p","o","r","t"," ","{","r",",","t","}"," ","f","r","o","m"," ","'","f","'",";">>,
              ModuleF, AmbientSymbol) EXCEPT
        !.clause = TRUE, !.named = TRUE,
        !.elements = << Element(<<>>, <<"r">>), Element(<<>>, <<"t">>) >>]

\* import {q as r} from 'f';
AliasR ==
    [ImportOf(<<"i","m","p","o","r","t"," ","{","q"," ","a","s"," ","r","}"," ","f","r","o","m"," ","'","f","'",";">>,
              ModuleF, AmbientSymbol) EXCEPT
        !.clause = TRUE, !.named = TRUE, !.elements = << Element(<< <<"q">> >>, <<"r">>) >>]

\* import r from 'f';
DefaultR ==
    [ImportOf(<<"i","m","p","o","r","t"," ","r"," ","f","r","o","m"," ","'","f","'",";">>,
              ModuleF, AmbientSymbol) EXCEPT
        !.clause = TRUE, !.defaultName = << <<"r">> >>]

\* import * as r from 'f';
NamespaceR ==
    [ImportOf(<<"i","m","p","o","r","t"," ","*"," ","a","s"," ","r"," ","f","r","o","m"," ","'","f","'",";">>,
              ModuleF, AmbientSymbol) EXCEPT
        !.clause = TRUE, !.namespaceName = << <<"r">> >>]

\* import d,{q as r,t} from 'f';
DefaultNamed ==
    [ImportOf(<<"i","m","p","o","r","t"," ","d",",","{","q"," ","a","s"," ","r",",","t","}"," ","f","r","o","m"," ","'","f","'",";">>,
              ModuleF, AmbientSymbol) EXCEPT
        !.clause = TRUE, !.defaultName = << <<"d">> >>, !.named = TRUE,
        !.elements = << Element(<< <<"q">> >>, <<"r">>), Element(<<>>, <<"t">>) >>]

\*  import s=require('f');   (one leading blank of trivia)
EqualsS ==
    [ImportOf(<<" ","i","m","p","o","r","t"," ","s","=","r","e","q","u","i","r","e","(","'","f","'",")",";">>,
              ModuleF, AmbientSymbol) EXCEPT
        !.kind = "ImportEqualsDeclaration", !.lead = 1, !.name = <<"s">>]

\* export * from 'f';
ExportStar ==
    [ImportOf(<<"e","x","p","o","r","t"," ","*"," ","f","r","o","m"," ","'","f","'",";">>,
              ModuleF, AmbientSymbol) EXCEPT
        !.kind = "ExportDeclaration"]

\* import {u} from 'z';   a literal specifier the checker resolves to nothing
Unresolved ==
    [ImportOf(<<"i","m","p","o","r","t"," ","{","u","}"," ","f","r","o","m"," ","'","z","'",";">>,
              <<"z">>, NoSymbol) EXCEPT
        !.clause = TRUE, !.named = TRUE, !.elements = << Element(<<>>, <<"u">>) >>]

\* import e=N.x;   an import-equals with no external module name
NoLiteral ==
    [BaseNode("ImportEqualsDeclaration", <<"i","m","p","o","r","t"," ","e","=","N",".","x",";">>) EXCEPT
        !.name = <<"e">>, !.refText = <<"N",".","x">>]

Exported(kind, full, name) ==
    [BaseNode(kind, full) EXCEPT
        !.name = name, !.export = TRUE, !.modPos = 0, !.modEnd = Len(<<"e","x","p","o","r","t">>)]

\* export class A{}
ExportClassA ==
    Exported("ClassDeclaration", <<"e","x","p","o","r","t"," ","c","l","a","s","s"," ","A","{","}">>, <<"A">>)
\* export namespace N{}   (the bundle's own namespace in the Component config)
ExportNamespaceN ==
    Exported("ModuleDeclaration",
             <<"e","x","p","o","r","t"," ","n","a","m","e","s","p","a","c","e"," ","N","{","}">>, <<"N">>)
\* export namespace M{}
ExportNamespaceM ==
    Exported("ModuleDeclaration",
             <<"e","x","p","o","r","t"," ","n","a","m","e","s","p","a","c","e"," ","M","{","}">>, <<"M">>)
\* export import g=N.x;   an exported alias of a namespace member
ExportAlias ==
    [Exported("ImportEqualsDeclaration",
              <<"e","x","p","o","r","t"," ","i","m","p","o","r","t"," ","g","=","N",".","x",";">>, <<"g">>)
        EXCEPT !.refText = <<"N",".","x">>]
\* export var w;   on a line of its own: the line break before it is the
\* leading trivia of the statement and of its first modifier
LeadExportVar ==
    [Exported("VariableStatement",
              <<"\n","e","x","p","o","r","t"," ","v","a","r"," ","w",";">>, <<"w">>)
        EXCEPT !.lead = 1]
\* var v;
PlainVar == BaseNode("VariableStatement", <<"v","a","r"," ","v",";">>)
\* declare var w;
DeclareVar == BaseNode("VariableStatement", <<"d","e","c","l","a","r","e"," ","v","a","r"," ","w",";">>)

RECURSIVE Place(_, _)
\* The nodes of a file laid out one after the other from offset `at`.
Place(nodes, at) ==
    IF nodes = <<>> THEN <<>>
    ELSE LET n == Head(nodes)
             e == at + Len(n.full)
         IN  << [n EXCEPT !.pos = at, !.end = e,
                          !.modPos = at + n.modPos, !.modEnd = at + n.lead + n.modEnd] >>
             \o Place(Tail(nodes), e)

\* A ts.SourceFile: fileName, text, languageVariant, the DeclarationFile flag
\* and its top-level children.
SourceFile(fileName, languageVariant, isDeclarationFile, nodes) ==
    [fileName |-> fileName,
     text |-> Flatten([i \in DOMAIN nodes |-> nodes[i].full]),
     languageVariant |-> languageVariant,
     declarationFile |-> isDeclarationFile,
     children |-> Place(nodes, 0)]

\* The contents a file of the program may have.  Every file is a valid
\* module on its own: no file binds a local name twice.
VariantsA ==
    << SourceFile(FileA, "Standard", FALSE, <<ImportB, AliasR, ExportClassA, LeadExportVar>>),
       SourceFile(FileA, "Standard", FALSE, <<DefaultNamed, ImportB, ExportNamespaceN>>) >>
VariantsB ==
    << SourceFile(FileB, "Standard", FALSE, <<ImportC, NamedRT, ExportNamespaceM>>),
       SourceFile(FileB, "Standard", FALSE, <<ImportA, NamespaceR, EqualsS, ExportNamespaceM>>),
       SourceFile(FileB, "Standard", FALSE, <<Unresolved, ExportNamespaceM>>) >>
VariantsC ==
    << SourceFile(FileC, "JSX", FALSE, <<DefaultR, EqualsS, ExportStar, ImportD, PlainVar>>),
       SourceFile(FileC, "Standard", FALSE, <<NoLiteral, ExportAlias, PlainVar>>) >>
VariantD == SourceFile(FileD, "Standard", TRUE, <<DeclareVar>>)

\* A program is named by the contents chosen for its files a, b and c.
ProgramIds == (DOMAIN VariantsA) \X (DOMAIN VariantsB) \X (DOMAIN VariantsC)

\* The programs (ts.Program) a builder is constructed with: file name -> file.
Programs ==
    [id \in ProgramIds |->
        [f \in {FileA, FileB, FileC, FileD} |->
            IF f = FileA THEN VariantsA[id[1]]
            ELSE IF f = FileB THEN VariantsB[id[2]]
            ELSE IF f = FileC THEN VariantsC[id[3]]
            ELSE VariantD]]

----------------------------------------------------------------------------
(* Collaborators of the builder that are not part of Bundler.ts            *)

\* TsCore.normalizeSlashes: every backslash becomes a forward slash.
normalizeSlashes(fileName) ==
    [i \in DOMAIN fileName |-> IF fileName[i] = "\\" THEN "/" ELSE fileName[i]]

\* String.prototype.toLowerCase on the letters file names are written with.
toLowerCase(s) ==
    LET lower == [c \in {"A", "B", "C", "D", "S", "Z"} |->
                     CASE c = "A" -> "a" [] c = "B" -> "b" [] c = "C" -> "c"
                       [] c = "D" -> "d" [] c = "S" -> "s" [] c = "Z" -> "z"]
    IN  [i \in DOMAIN s |-> IF s[i] \in DOMAIN lower THEN lower[s[i]] ELSE s[i]]

\* WatchCompilerHost.getCanonicalFileName on a host whose file names are not
\* case sensitive.
getCanonicalFileName(fileName) == toLowerCase(fileName)

RECURSIVE formatMessage(_, _)
\* The message template with its placeholder {0} replaced by the argument.
formatMessage(template, arg) ==
    IF template = <<>> THEN <<>>
    ELSE IF Len(template) >= 3 /\ SubSeq(template, 1, 3) = <<"{","0","}">>
         THEN arg \o formatMessage(SubSeq(template, 4, Len(template)), arg)
         ELSE <<Head(template)>> \o formatMessage(Tail(template), arg)

\* TsCore.createDiagnostic(message, arg).
createDiagnostic(message, arg) ==
    [code |-> message.code, category |-> message.category,
     messageText |-> formatMessage(message.message, arg)]

ImportKinds == {"ImportDeclaration", "ImportEqualsDeclaration", "ExportDeclaration"}

\* The import and export nodes of a file, in source order.
importNodes(file) == SelectSeq(file.children, LAMBDA n : n.kind \in ImportKinds)

\* The code source files the import nodes of file f resolve to.
importedFiles(prog, f) ==
    { n.symbol.file : n \in { m \in Range(importNodes(prog[f])) :
                                  /\ m.symbol.decl = "SourceFile"
                                  /\ ~m.symbol.declarationFile
                                  /\ m.symbol.file \in DOMAIN prog } }

RECURSIVE reachable(_, _, _)
reachable(prog, frontier, seen) ==
    IF frontier = {} THEN seen
    ELSE LET next == (UNION { importedFiles(prog, f) : f \in frontier }) \ seen
         IN  reachable(prog, next, seen \cup next)

\* DependencyBuilder.getSourceFileDependencies: a map whose keys are the
\* file and the code files it reaches through its imports, each with the
\* import nodes of that file.  The order of its keys is left open: the
\* walk draws the next key from the keys not yet visited.
getSourceFileDependencies(prog, file) ==
    [k \in reachable(prog, {file.fileName}, {file.fileName}) |-> importNodes(prog[k])]

----------------------------------------------------------------------------
(* BundleBuilder: the private methods                                     *)

\* isCodeSourceFile (lines 553-556).
isCodeSourceFile(file) == ~file.declarationFile

\* isCodeModule (lines 558-563), for a symbol that exists.
isCodeModule(importSymbol) ==
    importSymbol.decl = "SourceFile" /\ ~importSymbol.declarationFile

\* isAmbientModule (lines 565-569).
isAmbientModule(importSymbol) ==
    importSymbol.decl = "ModuleDeclaration" /\ importSymbol.ambient

\* Line 479 reads `this.isAmbientModule` without calling it: the operand is
\* the method itself, which is truthy for every symbol.
isAmbientModuleOperand == TRUE

\* getSymbolFromNode (lines 572-578): undefined unless the node has a
\* string-literal module name, and then whatever the checker resolves.
getSymbolFromNode(node) == IF node.literal THEN node.symbol ELSE NoSymbol

\* getImportModuleName (lines 365-375).
getImportModuleName(node) == IF node.literal THEN node.spec ELSE node.refText

\* Node.getText(): the node's characters without its leading trivia.
getText(node) == SubSeq(node.full, node.lead + 1, Len(node.full))

Spaces(n) == [i \in 1..n |-> " "]

\* whiteOut with the suffix taken one character late.
whiteOutSuffixLate(pos, end, text) ==
    LET whiteSpace == Spaces(end - pos)
        prefix == SubSeq(text, 1, pos)
        suffix == SubSeq(text, end + 2, Len(text))
    IN  prefix \o whiteSpace \o suffix

\* whiteOut (lines 513-525).
whiteOut(pos, end, text) ==
    LET whiteSpace == Spaces(end - pos)
        prefix == SubSeq(text, 1, pos)
        suffix == SubSeq(text, end + 1, Len(text))
    IN  prefix \o whiteSpace \o suffix

\* The forEachChild callback that blanks the imports of code modules only.
editNodeCodeModulesOnly(node, editText, bundle) ==
    IF node.kind \in ImportKinds
    THEN IF node.literal
         THEN LET moduleSymbol == node.symbol
              IN  IF moduleSymbol # NoSymbol
                     /\ isCodeModule(moduleSymbol)
                  THEN whiteOut(node.pos, node.end, editText)
                  ELSE editText
         ELSE editText
    ELSE IF bundle.packageType = "Component"
         THEN IF node.kind = "ModuleDeclaration"
              THEN IF node.name # bundle.packageNamespace /\ node.export
                   THEN whiteOut(node.modPos, node.modEnd, editText)
                   ELSE editText
              ELSE IF node.export
                   THEN whiteOut(node.modPos, node.modEnd, editText)
                   ELSE editText
         ELSE editText

\* The callback of forEachChild in processImportExports (lines 470-508).
editNode(node, editText, bundle) ==
    IF node.kind \in ImportKinds
    THEN IF node.literal
         THEN LET moduleSymbol == node.symbol
              IN  IF moduleSymbol # NoSymbol
                     /\ (isCodeModule(moduleSymbol) \/ isAmbientModuleOperand)
                  THEN whiteOut(node.pos, node.end, editText)
                  ELSE editText
         ELSE editText
    ELSE IF bundle.packageType = "Component"
         THEN IF node.kind = "ModuleDeclaration"
              THEN IF node.name # bundle.packageNamespace /\ node.export
                   THEN whiteOut(node.modPos, node.modEnd, editText)
                   ELSE editText
              ELSE IF node.export
                   THEN whiteOut(node.modPos, node.modEnd, editText)
                   ELSE editText
         ELSE editText

RECURSIVE editChildren(_, _, _)
editChildren(children, editText, bundle) ==
    IF children = <<>> THEN editText
    ELSE editChildren(Tail(children), editNode(Head(children), editText, bundle), bundle)

\* processImportExports (lines 466-511).
processImportExports(file, bundle) == editChildren(file.children, file.text, bundle)

\* addSourceFile (lines 533-551) on the three fields it writes.
addSourceFile(file, bundle, st) ==
    IF isCodeSourceFile(file)
    THEN [st EXCEPT
            !.bundleCodeText = @ \o processImportExports(file, bundle) \o <<"\n">>,
            !.bundleImportedFiles = SetProperty(@, file.fileName, file.fileName)]
    ELSE IF ~hasProperty(st.bundleSourceFiles, file.fileName)
         THEN [st EXCEPT !.bundleSourceFiles = SetProperty(@, file.fileName, file.text)]
         ELSE st

\* addModuleImport that records the name but reports every call as new.
addModuleImportAlwaysNew(registry, moduleName, importName) ==
    LET created == IF ~hasProperty(registry, moduleName)
                   THEN SetProperty(registry, moduleName, {})
                   ELSE registry
    IN  [ret |-> TRUE,
         registry |-> [created EXCEPT ![moduleName] = @ \cup {importName}]]

\* addModuleImport (lines 377-392): the registry after the call and the
\* value returned.
addModuleImport(registry, moduleName, importName) ==
    LET created == IF ~hasProperty(registry, moduleName)
                   THEN SetProperty(registry, moduleName, {})
                   ELSE registry
        moduleImports == created[moduleName]
    IN  IF importName \notin moduleImports
        THEN [ret |-> TRUE,
              registry |-> [created EXCEPT ![moduleName] = moduleImports \cup {importName}]]
        ELSE [ret |-> FALSE, registry |-> created]

\* emitModuleImportDeclaration (lines 527-531).
emitModuleImportDeclaration(bundleImportText, moduleBlockText) ==
    bundleImportText \o moduleBlockText \o <<"\n">>

\* One binding of an import statement: the module, the form of the binding,
\* the name it has in the module and the local name it is bound to.
Binding(moduleName, form, source, local) ==
    [module |-> moduleName, form |-> form, source |-> source, local |-> local]

\* The bindings an import node declares.
bindingsOf(node) ==
    IF node.kind = "ImportEqualsDeclaration"
    THEN { Binding(getImportModuleName(node), "equals", node.name, node.name) }
    ELSE IF node.kind = "ImportDeclaration" /\ node.clause
    THEN { Binding(node.spec, "default", n, n) : n \in Range(node.defaultName) }
         \cup { Binding(node.spec, "namespace", n, n) : n \in Range(node.namespaceName) }
         \cup { Binding(node.spec, "named",
                        IF e.propertyName = <<>> THEN e.name ELSE Head(e.propertyName),
                        e.name) : e \in Range(node.elements) }
    ELSE {}

\* A call of addModuleImport inside a writer w = [registry, text, calls,
\* written, hasNamedBindings]: the registry is updated and the call logged.
registerIn(w, moduleName, importName) ==
    LET r == addModuleImport(w.registry, moduleName, importName)
    IN  [w EXCEPT !.registry = r.registry,
                  !.calls = Append(@, [module |-> moduleName, name |-> importName, ret |-> r.ret])]

lastRet(w) == w.calls[Len(w.calls)].ret

RECURSIVE writeElements(_, _, _)
\* The callback of Utils.forEach over the NamedImports elements (lines 433-451).
writeElements(w, moduleName, elements) ==
    IF elements = <<>> THEN w
    ELSE LET element == Head(elements)
             w1 == registerIn(w, moduleName, element.name)
             alias == element.propertyName
             w2 == IF lastRet(w1)
                   THEN [w1 EXCEPT
                           !.hasNamedBindings = TRUE,
                           !.text = @ \o (IF w1.hasNamedBindings THEN <<","," ">> ELSE <<>>)
                                      \o (IF alias # <<>>
                                          THEN Head(alias) \o <<" ","a","s"," ">> \o element.name
                                          ELSE element.name),
                           !.written = Append(@, Binding(moduleName, "named",
                                                  IF alias # <<>> THEN Head(alias) ELSE element.name,
                                                  element.name))]
                   ELSE w1
         IN  writeElements(w2, moduleName, Tail(elements))

\* writeImportDeclaration (lines 394-464).  Returns the registry, the
\* preamble text, the addModuleImport calls made and the bindings written.
writeImportDeclaration(node, registry, bundleImportText) ==
    LET none == [registry |-> registry, bundleImportText |-> bundleImportText,
                 calls |-> <<>>, written |-> <<>>]
    IN
    IF ~node.clause THEN none
    ELSE
    LET moduleName == node.spec
        w0 == [registry |-> registry, text |-> <<"i","m","p","o","r","t"," ">>,
               calls |-> <<>>, written |-> <<>>, hasNamedBindings |-> FALSE]
        \* default binding (lines 406-411)
        wd == IF node.defaultName # <<>>
              THEN registerIn(w0, moduleName, Head(node.defaultName))
              ELSE w0
        hasDefaultBinding == node.defaultName # <<>> /\ lastRet(wd)
        w1 == IF hasDefaultBinding
              THEN [wd EXCEPT !.text = @ \o Head(node.defaultName),
                              !.written = Append(@, Binding(moduleName, "default",
                                                   Head(node.defaultName), Head(node.defaultName)))]
              ELSE wd
        comma == IF hasDefaultBinding THEN <<","," ">> ELSE <<>>
        \* namespace import (lines 414-425)
        wn == registerIn(w1, moduleName, Head(node.namespaceName))
        \* named imports (lines 426-454)
        wb == [w1 EXCEPT !.text = @ \o comma \o <<"{"," ">>]
        we == writeElements(wb, moduleName, node.elements)
        w2 == IF node.namespaceName # <<>>
              THEN IF lastRet(wn)
                   THEN [wn EXCEPT
                           !.text = @ \o comma \o <<"*"," ","a","s"," ">> \o Head(node.namespaceName),
                           !.hasNamedBindings = TRUE,
                           !.written = Append(@, Binding(moduleName, "namespace",
                                                Head(node.namespaceName), Head(node.namespaceName)))]
                   ELSE wn
              ELSE IF node.named
              THEN [we EXCEPT !.text = @ \o <<" ","}">>]
              ELSE w1
        importToWrite == w2.text \o <<" ","f","r","o","m"," ">> \o node.specText \o <<";">>
    IN  IF hasDefaultBinding \/ w2.hasNamedBindings
        THEN [registry |-> w2.registry,
              bundleImportText |-> emitModuleImportDeclaration(bundleImportText, importToWrite),
              calls |-> w2.calls, written |-> w2.written]
        ELSE [registry |-> w2.registry, bundleImportText |-> bundleImportText,
              calls |-> w2.calls, written |-> <<>>]

\* The ImportEqualsDeclaration branch of the walk (lines 314-325).
writeImportEquals(node, registry, bundleImportText) ==
    LET importName == node.name
        moduleName == getImportModuleName(node)
        r == addModuleImport(registry, moduleName, importName)
        call == [module |-> moduleName, name |-> importName, ret |-> r.ret]
    IN  IF r.ret
        THEN [registry |-> r.registry,
              bundleImportText |-> emitModuleImportDeclaration(bundleImportText, getText(node)),
              calls |-> <<call>>,
              written |-> << Binding(moduleName, "equals", importName, importName) >>]
        ELSE [registry |-> r.registry, bundleImportText |-> bundleImportText,
              calls |-> <<call>>, written |-> <<>>]

----------------------------------------------------------------------------
(* Bundles and results                                                     *)

\* The entry file names a bundle may list, as written in the bundle: two
\* of them differ from the canonical name of the file they denote, and the
\* last one denotes no file of the program.
EntryFileNames ==
    { <<"A">>, <<"b">>, <<"s","\\","c">>, <<"d">>, <<"Z","\\","z">> }

\* BundlePackage: the package type and the package namespace.
Packages ==
    { [packageType |-> "Component", packageNamespace |-> <<"N">>],
      [packageType |-> "Library", packageNamespace |-> <<"L","b">>] }

BundleName == <<"o","u","t">>

Bundles ==
    { [name |-> BundleName, fileNames |-> fs,
       packageType |-> p.packageType, packageNamespace |-> p.packageNamespace]
      : fs \in SeqsUpTo(EntryFileNames, MaxEntries), p \in Packages }

\* this.bundle before the first build.
NoBundle == [name |-> <<>>, fileNames |-> <<>>, packageType |-> "none", packageNamespace |-> <<>>]

\* Lines 239-246 for a bundle name without directory part and without
\* outDir: path.join(path.dirname(name), path.basename(name)) is the name.
bundleFilePath(b) == normalizeSlashes(b.name)

DiagnosticCode == 6060

\* The diagnostic message of line 272.
Bundle_source_file_0_not_found_6060 ==
    [code |-> DiagnosticCode, category |-> "Error",
     message |-> <<"B","u","n","d","l","e"," ","s","o","u","r","c","e"," ","f","i","l","e"," ",
                   "'","{","0","}","'"," ","n","o","t"," ","f","o","u","n","d",".">>]

\* new BundleResult(status, errors, bundleFile); an absent argument is the
\* empty sequence.
BundleResult(status, errors, bundleFile) ==
    [status |-> status, errors |-> errors, bundleFile |-> bundleFile]

NoResult == BundleResult("none", <<>>, <<>>)

\* The failure result without its diagnostic.
entryNotFoundSilent(sourceFileName) ==
    BundleResult("DiagnosticsPresent_OutputsSkipped", <<>>, <<>>)

\* Lines 272-274: the result for an entry file that is not in the program.
entryNotFound(sourceFileName) ==
    BundleResult("DiagnosticsPresent_OutputsSkipped",
                 << createDiagnostic(Bundle_source_file_0_not_found_6060, sourceFileName) >>,
                 <<>>)

\* The bundle text with the preamble left out of a Library bundle.
assembleTextNoPreamble(b, importText, codeText) ==
    IF b.packageType = "Library"
    THEN <<"e","x","p","o","r","t"," ","n","a","m","e","s","p","a","c","e"," ">>
         \o b.packageNamespace \o <<" ","{","\r","\n">>
         \o codeText
         \o <<" ","\r","\n","}">>
    ELSE importText \o codeText

\* Lines 341-351: the bundle text from the preamble and the code text.
assembleText(b, importText, codeText) ==
    IF b.packageType = "Library"
    THEN importText
         \o <<"e","x","p","o","r","t"," ","n","a","m","e","s","p","a","c","e"," ">>
         \o b.packageNamespace \o <<" ","{","\r","\n">>
         \o codeText
         \o <<" ","\r","\n","}">>
    ELSE importText \o codeText

\* Line 353.
bundleExtensionOf(isTsx) == IF isTsx THEN <<".","t","s","x">> ELSE <<".","t","s">>

----------------------------------------------------------------------------
(* The state                                                               *)

VARIABLES
    programId,            \* this.program: which of Programs the builder was given
    bundle,               \* this.bundle
    bundleCodeText,       \* this.bundleCodeText
    bundleImportText,     \* this.bundleImportText
    bundleImportedFiles,  \* this.bundleImportedFiles
    bundleModuleImports,  \* this.bundleModuleImports: module -> names
    bundleSourceFiles,    \* this.bundleSourceFiles
    isBundleTsx,          \* the local isBundleTsx of build
    filesKey,             \* position of build in bundle.fileNames
    depKeys,              \* keys of sourceDependencies not yet visited
    depKey,               \* the key being visited: <<>> or <<key>>
    nodeIndex,            \* position in sourceDependencies[depKey]
    pc,                   \* "idle", "entry", "walk", "done", "thrown"
    result,               \* what build returned
    registered,           \* history: the pairs addModuleImport was called with
    lastVisit,            \* history: what the visit of the last import node did
    importsWritten,       \* history: the bindings written to the preamble
    carried               \* history: build was called on fields an earlier build had filled

vars == << programId, bundle, bundleCodeText, bundleImportText, bundleImportedFiles,
           bundleModuleImports, bundleSourceFiles, isBundleTsx, filesKey, depKeys,
           depKey, nodeIndex, pc, result, registered, lastVisit, importsWritten,
           carried >>

walkVars == << depKeys, depKey, nodeIndex >>
textVars == << bundleCodeText, bundleImportedFiles, bundleSourceFiles >>

\* this.program: file name -> source file.
program == Programs[programId]

\* lastVisit when the last step visited no import node.  A call is logged
\* with what addModuleImport returned (ret) and with whether its pair was
\* called for the first time in this build (first).
NoVisit == [calls |-> <<>>, written |-> <<>>, emitted |-> FALSE]

\* The entry file build is at, and what it resolves to.
fileName == bundle.fileNames[filesKey]
bundleSourceFileName == getCanonicalFileName(normalizeSlashes(fileName))
bundleSourceFile == program[bundleSourceFileName]
sourceDependencies == getSourceFileDependencies(program, bundleSourceFile)

\* The import node the walk is at.
keyExhausted ==
    IF depKey = <<>> THEN TRUE ELSE nodeIndex > Len(sourceDependencies[Head(depKey)])
importNode == sourceDependencies[Head(depKey)][nodeIndex]
atNode == pc = "walk" /\ ~keyExhausted

\* Constructor (lines 220-230).
Init ==
    /\ programId \in ProgramIds
    /\ bundle = NoBundle
    /\ bundleCodeText = <<>>
    /\ bundleImportText = <<>>
    /\ bundleImportedFiles = EmptyMap
    /\ bundleModuleImports = EmptyMap
    /\ bundleSourceFiles = EmptyMap
    /\ isBundleTsx = FALSE
    /\ filesKey = 0
    /\ depKeys = {}
    /\ depKey = <<>>
    /\ nodeIndex = 0
    /\ pc = "idle"
    /\ result = NoResult
    /\ registered = {}
    /\ lastVisit = NoVisit
    /\ importsWritten = <<>>
    /\ carried = FALSE

\* build that leaves the registry of module imports as the build before left it.
BuildStartKeepsRegistry(b) ==
    /\ pc = "idle"
    /\ bundle' = b
    /\ bundleCodeText' = <<>>
    /\ bundleImportText' = <<>>
    /\ bundleImportedFiles' = EmptyMap
    /\ bundleSourceFiles' = EmptyMap
    /\ isBundleTsx' = FALSE
    /\ filesKey' = 1
    /\ depKeys' = {}
    /\ depKey' = <<>>
    /\ nodeIndex' = 0
    /\ pc' = "entry"
    /\ result' = NoResult
    /\ registered' = {}
    /\ lastVisit' = NoVisit
    /\ importsWritten' = <<>>
    /\ carried' = (<< bundleCodeText, bundleImportText >> # << <<>>, <<>> >>
                    \/ << bundleImportedFiles, bundleModuleImports, bundleSourceFiles >>
                           # << EmptyMap, EmptyMap, EmptyMap >>)
    /\ UNCHANGED << programId, bundleModuleImports >>

\* build is called with a bundle (lines 232-260).
BuildStart(b) ==
    /\ pc = "idle"
    /\ bundle' = b
    /\ bundleCodeText' = <<>>
    /\ bundleImportText' = <<>>
    /\ bundleImportedFiles' = EmptyMap
    /\ bundleModuleImports' = EmptyMap
    /\ bundleSourceFiles' = EmptyMap
    /\ isBundleTsx' = FALSE
    /\ filesKey' = 1
    /\ depKeys' = {}
    /\ depKey' = <<>>
    /\ nodeIndex' = 0
    /\ pc' = "entry"
    /\ result' = NoResult
    /\ registered' = {}
    /\ lastVisit' = NoVisit
    /\ importsWritten' = <<>>
    /\ carried' = (<< bundleCodeText, bundleImportText >> # << <<>>, <<>> >>
                    \/ << bundleImportedFiles, bundleModuleImports, bundleSourceFiles >>
                           # << EmptyMap, EmptyMap, EmptyMap >>)
    /\ UNCHANGED programId

\* The entry file is not in the program (lines 266-275).
EntryNotFound ==
    /\ pc = "entry"
    /\ filesKey <= Len(bundle.fileNames)
    /\ bundleSourceFileName \notin DOMAIN program
    /\ result' = entryNotFound(bundleSourceFileName)
    /\ pc' = "done"
    /\ lastVisit' = NoVisit
    /\ UNCHANGED << programId, carried, bundle, textVars, bundleImportText, bundleModuleImports,
                    registered, importsWritten, isBundleTsx, filesKey, walkVars >>

\* The entry file is found: the tsx check and its dependencies (lines 277-298).
\* The merge into allDependencies (lines 289-294) writes a local that is
\* never read.
EntryFound ==
    /\ pc = "entry"
    /\ filesKey <= Len(bundle.fileNames)
    /\ bundleSourceFileName \in DOMAIN program
    /\ isBundleTsx' = (isBundleTsx \/ bundleSourceFile.languageVariant = "JSX")
    /\ depKeys' = DOMAIN sourceDependencies
    /\ depKey' = <<>>
    /\ nodeIndex' = 0
    /\ pc' = "walk"
    /\ lastVisit' = NoVisit
    /\ UNCHANGED << programId, carried, bundle, textVars, bundleImportText, bundleModuleImports,
                    registered, importsWritten, filesKey, result >>

\* for ( var depKey in sourceDependencies ): the next key (line 299).
NextDepKey(k) ==
    /\ pc = "walk"
    /\ keyExhausted
    /\ k \in depKeys
    /\ depKeys' = depKeys \ {k}
    /\ depKey' = <<k>>
    /\ nodeIndex' = 1
    /\ lastVisit' = NoVisit
    /\ UNCHANGED << programId, carried, bundle, textVars, bundleImportText, bundleModuleImports,
                    registered, importsWritten, isBundleTsx, filesKey, pc, result >>

\* The import node has no symbol: isCodeModule dereferences undefined
\* (lines 302-304, 559) and build ends with a TypeError.
VisitThrows ==
    /\ atNode
    /\ getSymbolFromNode(importNode) = NoSymbol
    /\ pc' = "thrown"
    /\ result' = BundleResult("TypeError", <<>>, <<>>)
    /\ lastVisit' = NoVisit
    /\ UNCHANGED << programId, carried, bundle, textVars, bundleImportText, bundleModuleImports,
                    registered, importsWritten, isBundleTsx, filesKey, walkVars >>

\* The import node resolves to a code module (lines 304-312).
VisitCodeModule ==
    /\ atNode
    /\ getSymbolFromNode(importNode) # NoSymbol
    /\ isCodeModule(getSymbolFromNode(importNode))
    /\ LET importedSource == program[getSymbolFromNode(importNode).file]
           st == [bundleCodeText |-> bundleCodeText,
                  bundleImportedFiles |-> bundleImportedFiles,
                  bundleSourceFiles |-> bundleSourceFiles]
           st1 == IF ~hasProperty(bundleImportedFiles, importedSource.fileName)
                  THEN addSourceFile(importedSource, bundle, st)
                  ELSE st
       IN  /\ bundleCodeText' = st1.bundleCodeText
           /\ bundleImportedFiles' = st1.bundleImportedFiles
           /\ bundleSourceFiles' = st1.bundleSourceFiles
    /\ nodeIndex' = nodeIndex + 1
    /\ lastVisit' = NoVisit
    /\ UNCHANGED << programId, carried, bundle, bundleImportText, bundleModuleImports, registered,
                    importsWritten, isBundleTsx, filesKey, depKeys, depKey, pc, result >>

\* What both import-writing branches do with the writer's outcome.
Written(w) ==
    /\ bundleModuleImports' = w.registry
    /\ bundleImportText' = w.bundleImportText
    /\ lastVisit' =
          [calls |-> [i \in DOMAIN w.calls |->
                        [module |-> w.calls[i].module, name |-> w.calls[i].name,
                         ret |-> w.calls[i].ret,
                         first |-> /\ <<w.calls[i].module, w.calls[i].name>> \notin registered
                                   /\ \A j \in 1..(i - 1) :
                                         <<w.calls[j].module, w.calls[j].name>>
                                            # <<w.calls[i].module, w.calls[i].name>>]],
           written |-> w.written,
           emitted |-> w.bundleImportText # bundleImportText]
    /\ registered' = registered \cup { <<c.module, c.name>> : c \in Range(w.calls) }
    /\ importsWritten' = importsWritten \o w.written
    /\ nodeIndex' = nodeIndex + 1
    /\ UNCHANGED << programId, carried, bundle, textVars, isBundleTsx, filesKey, depKeys, depKey,
                    pc, result >>

\* An import-equals declaration of something else (lines 314-325).
VisitImportEquals ==
    /\ atNode
    /\ getSymbolFromNode(importNode) # NoSymbol
    /\ ~isCodeModule(getSymbolFromNode(importNode))
    /\ importNode.kind = "ImportEqualsDeclaration"
    /\ Written(writeImportEquals(importNode, bundleModuleImports, bundleImportText))

\* Any other node of something else (lines 326-329).
VisitImportDeclaration ==
    /\ atNode
    /\ getSymbolFromNode(importNode) # NoSymbol
    /\ ~isCodeModule(getSymbolFromNode(importNode))
    /\ importNode.kind # "ImportEqualsDeclaration"
    /\ Written(writeImportDeclaration(importNode, bundleModuleImports, bundleImportText))

\* All keys visited: the entry file itself is added (lines 334-338).
AddBundleSourceFile ==
    /\ pc = "walk"
    /\ keyExhausted
    /\ depKeys = {}
    /\ LET st == addSourceFile(bundleSourceFile, bundle,
                               [bundleCodeText |-> bundleCodeText,
                                bundleImportedFiles |-> bundleImportedFiles,
                                bundleSourceFiles |-> bundleSourceFiles])
       IN  /\ bundleCodeText' = st.bundleCodeText
           /\ bundleImportedFiles' = st.bundleImportedFiles
           /\ bundleSourceFiles' = st.bundleSourceFiles
    /\ filesKey' = filesKey + 1
    /\ depKey' = <<>>
    /\ nodeIndex' = 0
    /\ pc' = "entry"
    /\ lastVisit' = NoVisit
    /\ UNCHANGED << programId, carried, bundle, bundleImportText, bundleModuleImports, registered,
                    importsWritten, isBundleTsx, depKeys, result >>

\* All entry files done: the bundle file (lines 340-362).
BuildSucceeds ==
    /\ pc = "entry"
    /\ filesKey > Len(bundle.fileNames)
    /\ LET bundleText == assembleText(bundle, bundleImportText, bundleCodeText)
           bundleExtension == bundleExtensionOf(isBundleTsx)
           bundleFile == [path |-> bundleFilePath(bundle) \o bundleExtension,
                          extension |-> bundleExtension, text |-> bundleText]
       IN  result' = BundleResult("Success", <<>>, <<bundleFile>>)
    /\ pc' = "done"
    /\ lastVisit' = NoVisit
    /\ UNCHANGED << programId, carried, bundle, textVars, bundleImportText, bundleModuleImports,
                    registered, importsWritten, isBundleTsx, filesKey, walkVars >>

\* build has returned or thrown; the builder keeps its fields and may be
\* asked to build again.
Return ==
    /\ pc \in {"done", "thrown"}
    /\ pc' = "idle"
    /\ lastVisit' = NoVisit
    /\ carried' = FALSE
    /\ UNCHANGED << programId, bundle, textVars, bundleImportText, bundleModuleImports,
                    registered, importsWritten, isBundleTsx, filesKey, walkVars, result >>

Next ==
    \/ \E b \in Bundles : BuildStart(b)
    \/ EntryNotFound
    \/ EntryFound
    \/ \E k \in depKeys : NextDepKey(k)
    \/ VisitThrows
    \/ VisitCodeModule
    \/ VisitImportEquals
    \/ VisitImportDeclaration
    \/ AddBundleSourceFile
    \/ BuildSucceeds

\* One build on a new builder.
Spec == Init /\ [][Next]_vars

\* Any number of builds on the same builder, one after the other.
NextRebuild == Next \/ Return

SpecRebuild == Init /\ [][NextRebuild]_vars

----------------------------------------------------------------------------
(* Vocabulary of the properties                                           *)

Succeeded == pc = "done" /\ result.status = "Success"
Failed == pc = "done" /\ result.status = "DiagnosticsPresent_OutputsSkipped"

canonicalEntry(i) == getCanonicalFileName(normalizeSlashes(bundle.fileNames[i]))

\* Positions of bundle.fileNames that name no file of the program.
missingEntries == { i \in DOMAIN bundle.fileNames : canonicalEntry(i) \notin DOMAIN program }

\* The entry files of the bundle that are files of the program.
entryUnits == { canonicalEntry(i) : i \in DOMAIN bundle.fileNames \ missingEntries }

\* The internal units of the bundle: the code files among the entry files
\* and the files they reach through their imports.
internalUnits ==
    { f \in UNION { reachable(program, {e}, {e}) : e \in entryUnits } :
        isCodeSourceFile(program[f]) }

\* The edited body of a unit in this build.
editedBody(f) == processImportExports(program[f], bundle)

\* No file of the program imports itself through any chain of imports.
acyclicImports ==
    \A f \in DOMAIN program :
        f \notin reachable(program, importedFiles(program, f), importedFiles(program, f))

\* The import node whose visit led to the current state of the walk.
justVisited == pc = "walk" /\ depKey # <<>> /\ nodeIndex > 1
visitedNode == sourceDependencies[Head(depKey)][nodeIndex - 1]

\* The node is an import that the walk routes to the import writers.
isExternalImport(node) ==
    /\ node.kind \in {"ImportDeclaration", "ImportEqualsDeclaration"}
    /\ getSymbolFromNode(node) # NoSymbol
    /\ ~isCodeModule(getSymbolFromNode(node))

----------------------------------------------------------------------------
(* C1  Single emission                                                     *)

\* C1: after a build that returns Success, the edited body of every internal
\* unit of the bundle occurs exactly once in the body text.
C1_SingleEmission ==
    Succeeded =>
        \A f \in internalUnits : Occurrences(editedBody(f), bundleCodeText) = 1

----------------------------------------------------------------------------
(* C2  Dependency ordering                                                 *)

\* C2: after a build that returns Success, whenever internal unit A has an
\* import node that resolves to internal unit B, the body of B occurs in
\* the body text before the body of A.  Stated for programs whose imports
\* form no cycle, where some order of the bodies satisfies it.
C2_DependencyOrdering ==
    (Succeeded /\ acyclicImports) =>
        \A A \in internalUnits : \A B \in importedFiles(program, A) \cap internalUnits :
            /\ FirstOccurrence(editedBody(B), bundleCodeText) # 0
            /\ FirstOccurrence(editedBody(A), bundleCodeText) # 0
            /\ FirstOccurrence(editedBody(B), bundleCodeText)
                 < FirstOccurrence(editedBody(A), bundleCodeText)

----------------------------------------------------------------------------
(* C3  Cycle termination                                                   *)

\* The bundle has an entry unit A and a unit B that import each other.
cyclePairs ==
    { <<A, B>> \in entryUnits \X DOMAIN program :
        /\ A # B
        /\ B \in importedFiles(program, A)
        /\ A \in importedFiles(program, B) }

\* C3: when entry unit A and unit B import each other, a build that returns
\* Success has the body of A exactly once and the body of B exactly once in
\* the body text.
C3_CycleEmitsEachOnce ==
    Succeeded =>
        \A ab \in cyclePairs :
            /\ Occurrences(editedBody(ab[1]), bundleCodeText) = 1
            /\ Occurrences(editedBody(ab[2]), bundleCodeText) = 1

----------------------------------------------------------------------------
(* C4  Dedup of (module, name) pairs                                       *)

\* The bindings written to the preamble for a module and a local name.
writtenFor(moduleName, local) ==
    { i \in DOMAIN importsWritten :
        importsWritten[i].module = moduleName /\ importsWritten[i].local = local }

\* C4: addModuleImport returns true exactly when its (module, name) pair was
\* not passed to it before in this build, and every (module, name) pair has
\* at most one binding in the preamble.
C4_Dedup ==
    /\ \A i \in DOMAIN lastVisit.calls : lastVisit.calls[i].ret = lastVisit.calls[i].first
    /\ \A i \in DOMAIN importsWritten :
          Cardinality(writtenFor(importsWritten[i].module, importsWritten[i].local)) = 1
    /\ \A pair \in registered :
          /\ hasProperty(bundleModuleImports, pair[1])
          /\ pair[2] \in bundleModuleImports[pair[1]]

\* A visit in which addModuleImport was called again with a pair it had
\* seen, after bindings were written to the preamble.
C4_Witness ==
    /\ \E i \in DOMAIN lastVisit.calls : ~lastVisit.calls[i].first /\ ~lastVisit.calls[i].ret
    /\ importsWritten # <<>>

----------------------------------------------------------------------------
(* C5  The import writers drop no unique binding                           *)

\* C5: after the visit of an external import node, every binding of the node
\* (module, form, source name, local name) is in the preamble, and the visit
\* emitted a statement exactly when one of its bindings was not registered.
C5_NoBindingDropped ==
    (justVisited /\ isExternalImport(visitedNode)) =>
        /\ \A b \in bindingsOf(visitedNode) : b \in Range(importsWritten)
        /\ lastVisit.emitted <=> (\E i \in DOMAIN lastVisit.calls : lastVisit.calls[i].first)

----------------------------------------------------------------------------
(* C6  Length preservation                                                 *)

\* The spans processImportExports blanks in a file: the import and export
\* nodes with a resolved literal specifier and, in a Component package, the
\* export modifiers of the declarations other than the package namespace.
blankedSpans(file, b) ==
    { <<n.pos, n.end>> : n \in { m \in Range(file.children) :
          m.kind \in ImportKinds /\ m.literal /\ m.symbol # NoSymbol } }
    \cup
    { <<n.modPos, n.modEnd>> : n \in { m \in Range(file.children) :
          /\ m.kind \notin ImportKinds
          /\ b.packageType = "Component"
          /\ m.export
          /\ (m.kind = "ModuleDeclaration" => m.name # b.packageNamespace) } }

insideSpan(offset, spans) == \E sp \in spans : sp[1] < offset /\ offset <= sp[2]

\* The file the last step passed to addSourceFile as a code file: the
\* target of the import node just visited, or the entry file just added.
lastAdded ==
    IF justVisited
    THEN IF getSymbolFromNode(visitedNode) # NoSymbol /\ isCodeModule(getSymbolFromNode(visitedNode))
         THEN { getSymbolFromNode(visitedNode).file }
         ELSE {}
    ELSE IF pc = "entry" /\ filesKey > 1
         THEN { f \in { canonicalEntry(filesKey - 1) } : isCodeSourceFile(program[f]) }
         ELSE {}

\* C6: for every file added to the body, the edited text has the length of
\* the file's text, is a blank inside the blanked spans and the file's own
\* character elsewhere, and is in the body text followed by a line feed;
\* whiteOut keeps the length of the text for every span within it (tried
\* on the text of each entry file added).
C6_LengthPreserved ==
    \A f \in lastAdded :
        LET file == program[f]
            edited == processImportExports(file, bundle)
            spans == blankedSpans(file, bundle)
        IN  /\ hasProperty(bundleImportedFiles, f)
            /\ Len(edited) = Len(file.text)
            /\ \A i \in 1..Len(file.text) :
                  edited[i] = IF insideSpan(i, spans) THEN " " ELSE file.text[i]
            /\ Occurrences(edited \o <<"\n">>, bundleCodeText) >= 1
            /\ pc = "entry" =>
                  \A pos \in 0..Len(file.text) : \A end \in pos..Len(file.text) :
                      Len(whiteOut(pos, end, file.text)) = Len(file.text)

\* A file with import spans and a modifier span blanked was just added in a
\* Component build.
C6_Witness ==
    \E f \in lastAdded :
        /\ bundle.packageType = "Component"
        /\ Cardinality(blankedSpans(program[f], bundle)) >= 3
        /\ EndsWith(bundleCodeText, editedBody(f) \o <<"\n">>)
        /\ editedBody(f) # program[f].text

----------------------------------------------------------------------------
(* C7  Missing entry file                                                  *)

\* C7: build never goes past an entry file that is not in the program; it
\* returns at the first such entry, with exactly one diagnostic of code 6060
\* and category Error whose message names the file (by its canonical name),
\* and without a bundle file; a build that returns Success had none.
C7_MissingEntry ==
    /\ pc \in {"entry", "walk", "done", "thrown"} =>
          \A i \in missingEntries : filesKey <= i
    /\ (pc = "done" /\ missingEntries # {}) => Failed
    /\ Failed =>
          /\ filesKey \in missingEntries
          /\ Len(result.errors) = 1
          /\ result.errors[1].code = 6060
          /\ result.errors[1].category = "Error"
          /\ result.errors[1].messageText =
                <<"B","u","n","d","l","e"," ","s","o","u","r","c","e"," ","f","i","l","e"," ","'">>
                \o canonicalEntry(filesKey)
                \o <<"'"," ","n","o","t"," ","f","o","u","n","d",".">>
          /\ result.bundleFile = <<>>

\* The second entry file is missing, after the first was added to the body.
C7_Witness ==
    /\ Failed
    /\ filesKey = 2
    /\ bundleCodeText # <<>>

----------------------------------------------------------------------------
(* C8  Unresolved references                                               *)

\* C8: an import node without a literal specifier or without a symbol is
\* treated as external and build still returns a result: no build ends by
\* throwing.
C8_NeverThrows == pc # "thrown"

----------------------------------------------------------------------------
(* C9  Library wrapping                                                    *)

bundleFile == Head(result.bundleFile)

\* C9 as stated: the Library text is the preamble, `export namespace N {\n`,
\* the bodies and `\n}`; the Component text is the preamble and the bodies.
C9_WrappedWithNewlines ==
    Succeeded =>
        bundleFile.text =
            IF bundle.packageType = "Library"
            THEN bundleImportText
                 \o <<"e","x","p","o","r","t"," ","n","a","m","e","s","p","a","c","e"," ">>
                 \o bundle.packageNamespace \o <<" ","{","\n">>
                 \o bundleCodeText \o <<"\n","}">>
            ELSE bundleImportText \o bundleCodeText

\* C9 amended: the Library text is the preamble, `export namespace N {\r\n`,
\* the bodies and ` \r\n}` (a blank, a carriage return, a line feed and the
\* brace); the Component text is the preamble and the bodies.
C9_WrappedAsWritten ==
    Succeeded =>
        bundleFile.text =
            IF bundle.packageType = "Library"
            THEN bundleImportText
                 \o <<"e","x","p","o","r","t"," ","n","a","m","e","s","p","a","c","e"," ">>
                 \o bundle.packageNamespace \o <<" ","{","\r","\n">>
                 \o bundleCodeText \o <<" ","\r","\n","}">>
            ELSE bundleImportText \o bundleCodeText

\* A Library build returned Success with a preamble and a body.
C9_Witness ==
    /\ Succeeded
    /\ bundle.packageType = "Library"
    /\ bundleImportText # <<>>
    /\ bundleCodeText # <<>>

----------------------------------------------------------------------------
(* C10  Output extension                                                   *)

\* The files the build processed: its entry files and the files added to
\* the body.
processedUnits == entryUnits \cup DOMAIN bundleImportedFiles

\* C10: the extension of a Success result is .tsx exactly when one of the
\* processed files is a JSX file, else .ts, and the path ends with it.
C10_ExtensionFollowsUnits ==
    Succeeded =>
        /\ bundleFile.extension =
              IF \E f \in processedUnits : program[f].languageVariant = "JSX"
              THEN <<".","t","s","x">> ELSE <<".","t","s">>
        /\ EndsWith(bundleFile.path, bundleFile.extension)

----------------------------------------------------------------------------
(* C11  Determinism and no carried state                                   *)

\* What the steps of a build read, apart from the program: the fields of
\* the builder and the locals of build.
buildState ==
    [bundle |-> bundle, bundleCodeText |-> bundleCodeText,
     bundleImportText |-> bundleImportText, bundleImportedFiles |-> bundleImportedFiles,
     bundleModuleImports |-> bundleModuleImports, bundleSourceFiles |-> bundleSourceFiles,
     isBundleTsx |-> isBundleTsx, filesKey |-> filesKey, depKeys |-> depKeys,
     depKey |-> depKey, nodeIndex |-> nodeIndex]

\* buildState of a new builder whose build has just been called with b.
freshBuildState(b) ==
    [bundle |-> b, bundleCodeText |-> <<>>, bundleImportText |-> <<>>,
     bundleImportedFiles |-> EmptyMap, bundleModuleImports |-> EmptyMap,
     bundleSourceFiles |-> EmptyMap, isBundleTsx |-> FALSE, filesKey |-> 1,
     depKeys |-> {}, depKey |-> <<>>, nodeIndex |-> 0]

\* The files the entry files of the bundle reach, themselves included.
reachedUnits == UNION { reachable(program, {e}, {e}) : e \in entryUnits }

\* The (module, local name) pairs the import nodes of the reached files bind.
boundPairs ==
    { <<b.module, b.local>> :
        b \in UNION { bindingsOf(n) : n \in UNION { Range(importNodes(program[f])) : f \in reachedUnits } } }

\* The fields hold nothing but what the files of this bundle account for.
onlyThisBuild ==
    /\ DOMAIN bundleImportedFiles \subseteq reachedUnits
    /\ DOMAIN bundleSourceFiles \subseteq reachedUnits
    /\ \A m \in DOMAIN bundleModuleImports :
           \A n \in bundleModuleImports[m] : <<m, n>> \in boundPairs
    /\ (bundleImportedFiles = EmptyMap => bundleCodeText = <<>>)
    /\ (bundleModuleImports = EmptyMap => bundleImportText = <<>>)
    /\ ((\A f \in entryUnits : program[f].languageVariant # "JSX") => ~isBundleTsx)

\* C11: whatever the builder built before, and however that build ended, a
\* call of build leaves the fields and locals exactly as the call leaves
\* them on a new builder, so the steps that follow, which read nothing
\* else, are those of a build on a new builder; when the build has returned
\* or thrown, the seen set, the registry, the text buffers and the tsx flag
\* hold nothing but what the files of its own bundle account for, and the
\* text, path and extension of a Success result are computed from these
\* fields alone.
C11_NoCarriedState ==
    /\ [][(pc = "idle" /\ pc' = "entry") => buildState' = freshBuildState(bundle')]_vars
    /\ [](pc \in {"done", "thrown"} => onlyThisBuild)
    /\ [](Succeeded =>
            /\ bundleFile.text = assembleText(bundle, bundleImportText, bundleCodeText)
            /\ bundleFile.extension = bundleExtensionOf(isBundleTsx)
            /\ bundleFile.path = bundleFilePath(bundle) \o bundleFile.extension)

\* A build has returned Success on a builder whose fields held the output
\* of an earlier build when it was called, and has added bodies and imports
\* of its own.
C11_Witness ==
    /\ carried
    /\ Succeeded
    /\ bundleCodeText # <<>>
    /\ bundleImportText # <<>>

----------------------------------------------------------------------------
(* C12  Export-modifier policy                                             *)

\* The offsets of the characters of the export keyword of a declaration.
exportKeyword(node) == (node.modEnd - Len(<<"e","x","p","o","r","t">>) + 1) .. node.modEnd

\* The offsets of the characters of a top-level node, leading trivia included.
nodeOffsets(node) == (node.pos + 1) .. node.end

\* The top-level declarations of a file that carry an export modifier.
exportedDeclarations(file) == { n \in Range(file.children) : n.export }

\* The declaration is a namespace named as the bundle's namespace.
isPackageNamespace(node, b) ==
    node.kind = "ModuleDeclaration" /\ node.name = b.packageNamespace

\* C12: in the edited text of every file added to the body, under Component
\* packaging every top-level declaration with an export modifier has the
\* characters of its export keyword blank and every other character of it
\* as in the file, except a namespace named as the bundle's namespace,
\* which is as in the file throughout; under Library packaging the export
\* keyword of every such declaration is as in the file.
C12_ExportModifierPolicy ==
    \A f \in lastAdded :
        LET file == program[f]
            edited == editedBody(f)
        IN  \A n \in exportedDeclarations(file) :
                IF bundle.packageType = "Component"
                THEN IF isPackageNamespace(n, bundle)
                     THEN \A i \in nodeOffsets(n) : edited[i] = file.text[i]
                     ELSE \A i \in nodeOffsets(n) :
                             edited[i] = IF i \in exportKeyword(n) THEN " " ELSE file.text[i]
                ELSE \A i \in exportKeyword(n) : edited[i] = file.text[i]

----------------------------------------------------------------------------
(* C13  Import/export blanking policy                                      *)

\* The top-level import, import-equals and export declarations of a file.
importStatements(file) == { n \in Range(file.children) : n.kind \in ImportKinds }

\* The node names its module by a string literal that resolves to a symbol.
isResolved(node) == node.literal /\ node.symbol # NoSymbol

\* The characters of the node are all blank in the text.
isBlank(node, text) == \A i \in nodeOffsets(node) : text[i] = " "

\* The characters of the node are in the text as they are in the file.
isUntouched(node, text, file) == \A i \in nodeOffsets(node) : text[i] = file.text[i]

====
